---- MODULE Spec2Model ----
(***************************************************************************)
(* Model of chat.py: a Streamlit chat client for a RAG assistant.          *)
(*                                                                         *)
(* Text is a sequence of string fragments, so that an f-string is the      *)
(* concatenation of its parts and "the detail carries the body" is a       *)
(* statement about fragments.  Python values (those json.loads produces,   *)
(* and None) are tagged records.  One script run of the Streamlit app is   *)
(* one action, except that the run that talks to the network is split at   *)
(* the blocking requests.post call.  Script runs are taken to run to       *)
(* completion: no widget event interrupts a run.                           *)
(***************************************************************************)
EXTENDS Integers, Sequences, FiniteSets, TLC

VARIABLES
    messages,                \* st.session_state.messages
    api_token,               \* st.session_state.api_token
    assistant_id,            \* st.session_state.assistant_id
    config_error,            \* st.session_state.config_error
    api_token_input_key,     \* value held by the "API Token" text_input widget
    assistant_id_input_key,  \* value held by the "Assistant Name" text_input widget
    pc,                      \* "idle", or "waiting" inside requests.post
    netCalls,                \* number of requests.post calls issued so far
    request,                 \* the last request handed to requests.post
    result,                  \* how the last get_assistant_response call ended
    outcome,                 \* what the network did with the last request
    last                     \* what the last script run did

vars == <<messages, api_token, assistant_id, config_error, api_token_input_key,
          assistant_id_input_key, pc, netCalls, request, result, outcome, last>>

---------------------------------------------------------------------------
(* Bounds of the model.                                                    *)

MaxMsgs == 4
MaxCalls == 3

---------------------------------------------------------------------------
(* Python values.                                                          *)

None == [t |-> "None"]
Str(s) == [t |-> "str", s |-> s]
Num(n) == [t |-> "int", n |-> n]
List(l) == [t |-> "list", l |-> l]
Dict(d) == [t |-> "dict", d |-> d]
EmptyDict == Dict(<<>>)

\* Python truth value, as used by `not x` and `if x:`.
Truthy(v) ==
    CASE v.t = "None" -> FALSE
      [] v.t = "str"  -> v.s # <<>>
      [] v.t = "int"  -> v.n # 0
      [] v.t = "list" -> Len(v.l) > 0
      [] v.t = "dict" -> DOMAIN v.d # {}

\* The outcome of evaluating an expression: a value, or a raised exception.
Val(v) == [raised |-> FALSE, v |-> v]
Raise(cls, str) == [raised |-> TRUE, cls |-> cls, str |-> str]

\* obj.get(key, default)
PyGet(obj, key, default) ==
    IF obj.t # "dict"
    THEN Raise("AttributeError", <<"'", obj.t, "' object has no attribute 'get'">>)
    ELSE IF key \in DOMAIN obj.d THEN Val(obj.d[key]) ELSE Val(default)

\* obj[0]
PyIndex0(obj) ==
    CASE obj.t = "list" ->
            IF Len(obj.l) > 0 THEN Val(obj.l[1])
            ELSE Raise("IndexError", <<"list index out of range">>)
      [] obj.t = "str" ->
            IF obj.s # <<>> THEN Val(Str(<<Head(obj.s)>>))
            ELSE Raise("IndexError", <<"string index out of range">>)
      [] obj.t = "dict" -> Raise("KeyError", <<"0">>)
      [] OTHER -> Raise("TypeError", <<"'", obj.t, "' object is not subscriptable">>)

---------------------------------------------------------------------------
(* The response bodies the remote service is taken to send, and json.loads *)
(* on them.                                                                *)

Msg(content) == Dict([message |-> Dict([content |-> content])])
Doc1 == Dict([source_document_name |-> Str(<<"doc1">>),
              source_location |-> Str(<<"http://x">>)])

Bodies == <<
    [text |-> <<"{choices:[{message:{content:Hello}}]}">>, json |-> TRUE,
     value |-> Dict([choices |-> List(<<Msg(Str(<<"Hello">>))>>)])],
    [text |-> <<"{choices:[{message:{content:Hi}}],sources:[{doc1,http://x}]}">>, json |-> TRUE,
     value |-> Dict([choices |-> List(<<Msg(Str(<<"Hi">>))>>), sources |-> List(<<Doc1>>)])],
    [text |-> <<"{choices:[{message:{content:Hi}}],sources:[]}">>, json |-> TRUE,
     value |-> Dict([choices |-> List(<<Msg(Str(<<"Hi">>))>>), sources |-> List(<<>>)])],
    [text |-> <<"{choices:[{message:{content:Hi}}],sources:[doc1]}">>, json |-> TRUE,
     value |-> Dict([choices |-> List(<<Msg(Str(<<"Hi">>))>>),
                     sources |-> List(<<Str(<<"doc1">>)>>)])],
    [text |-> <<"{choices:[{message:{content:''}}]}">>, json |-> TRUE,
     value |-> Dict([choices |-> List(<<Msg(Str(<<>>))>>)])],
    [text |-> <<"{choices:[{message:{content:0}}]}">>, json |-> TRUE,
     value |-> Dict([choices |-> List(<<Msg(Num(0))>>)])],
    [text |-> <<"{choices:[{message:{}}]}">>, json |-> TRUE,
     value |-> Dict([choices |-> List(<<Dict([message |-> EmptyDict])>>)])],
    [text |-> <<"{}">>, json |-> TRUE, value |-> EmptyDict],
    [text |-> <<"{choices:[]}">>, json |-> TRUE,
     value |-> Dict([choices |-> List(<<>>)])],
    [text |-> <<"{choices:{}}">>, json |-> TRUE,
     value |-> Dict([choices |-> EmptyDict])],
    [text |-> <<"{choices:[{message:null}]}">>, json |-> TRUE,
     value |-> Dict([choices |-> List(<<Dict([message |-> None])>>)])],
    [text |-> <<"{choices:null}">>, json |-> TRUE,
     value |-> Dict([choices |-> None])],
    [text |-> <<"[]">>, json |-> TRUE, value |-> List(<<>>)],
    [text |-> <<"boom">>, json |-> FALSE, value |-> None],
    [text |-> <<>>, json |-> FALSE, value |-> None] >>

BodyTexts == {Bodies[i].text : i \in 1..Len(Bodies)}

\* json.loads(text): the parsed value, or the decode failure
JsonLoads(text) ==
    LET hit == {i \in 1..Len(Bodies) : Bodies[i].text = text /\ Bodies[i].json}
    IN IF hit = {} THEN Raise("JSONDecodeError", <<"Expecting value: line 1 column 1 (char 0)">>)
       ELSE Val(Bodies[CHOOSE i \in hit : TRUE].value)

---------------------------------------------------------------------------
(* get_assistant_response                                                  *)

Timeout == 120

\* What the network does with one requests.post: it fails in transport, or
\* a response with a status and a raw body comes back.
Responses ==
    {[kind |-> "response", status |-> 200, text |-> t] : t \in BodyTexts}
    \cup {[kind |-> "response", status |-> st, text |-> <<"boom">>] : st \in {404, 500}}
    \cup {[kind |-> "response", status |-> st, text |-> Bodies[1].text] : st \in {201, 304, 500}}
    \cup {[kind |-> "response", status |-> 304, text |-> <<>>]}

TransportFailures ==
    {[kind |-> "Timeout", status |-> 0, text |-> <<"Read timed out. (read timeout=120)">>],
     [kind |-> "ConnectionError", status |-> 0, text |-> <<"Failed to establish a new connection">>]}

NetOutcomes == Responses \cup TransportFailures

\* How a call of get_assistant_response ends: it returns the triple
\* (answer, sources, error), or an exception leaves it.
Return(called, answer, sources, error) ==
    [called |-> called, raised |-> FALSE, cls |-> "",
     answer |-> answer, sources |-> sources, error |-> error]
Propagate(exc) ==
    [called |-> TRUE, raised |-> TRUE, cls |-> exc.cls,
     answer |-> None, sources |-> None, error |-> None]
NoResult == Return(FALSE, None, None, None)

MissingMsg == <<"API Token or Assistant ID is missing.">>
EmptyMsg == <<"Received an empty response from the assistant.">>

\* API_BASE_URL_TEMPLATE.format(assistant_id=assistant_id)
Url(aid) == <<"https://bot.insightstream.ru/agent/">> \o aid \o <<"/v1/chat/completions">>

Headers(tok) == [ContentType |-> <<"application/json">>,
                 Authorization |-> <<"Bearer ">> \o tok]

\* Mutant: the stored entries are sent as they are.
PassHistoryThrough(history) == history

\* the loop that builds api_payload_messages
ApiPayloadMessages(history) ==
    [i \in 1..Len(history) |-> [role |-> history[i].role, content |-> history[i].content]]

Payload(history) == [messages |-> ApiPayloadMessages(history), stream |-> FALSE]

NoRequest == [url |-> <<>>, headers |-> Headers(<<>>), payload |-> Payload(<<>>), timeout |-> 0]

BuildRequest(tok, aid, history) ==
    [url |-> Url(aid), headers |-> Headers(tok), payload |-> Payload(history),
     timeout |-> Timeout]

\* Mutant: the guard written with `and`.
MissingConfigBoth(tok, aid) == tok = <<>> /\ aid = <<>>

\* the guard at the top of get_assistant_response
MissingConfig(tok, aid) == tok = <<>> \/ aid = <<>>

\* Mutant: only server errors raise.
RaiseForServerErrors(net, url) ==
    IF 500 <= net.status /\ net.status < 600
    THEN Raise("HTTPError", <<ToString(net.status), " Server Error for url: ">> \o url)
    ELSE Val(None)

\* response.raise_for_status()
RaiseForStatus(net, url) ==
    IF 400 <= net.status /\ net.status < 500
    THEN Raise("HTTPError", <<ToString(net.status), " Client Error for url: ">> \o url)
    ELSE IF 500 <= net.status /\ net.status < 600
    THEN Raise("HTTPError", <<ToString(net.status), " Server Error for url: ">> \o url)
    ELSE Val(None)

\* data.get("choices", [{}])[0].get("message", {}).get("content")
AssistantContent(data) ==
    LET choices == PyGet(data, "choices", List(<<EmptyDict>>))
        first   == IF choices.raised THEN choices ELSE PyIndex0(choices.v)
        message == IF first.raised THEN first ELSE PyGet(first.v, "message", EmptyDict)
    IN IF message.raised THEN message ELSE PyGet(message.v, "content", None)

\* The body of the try block, from requests.post on.
TryBlock(net, url) ==
    IF net.kind # "response" THEN Raise(net.kind, net.text)
    ELSE LET status == RaiseForStatus(net, url)
             data   == JsonLoads(net.text)
         IN IF status.raised THEN status
            ELSE IF data.raised THEN data
            ELSE LET content == AssistantContent(data.v)
                 IN IF content.raised THEN content
                    ELSE IF ~Truthy(content.v)
                         THEN Val(Return(TRUE, None, None, Str(EmptyMsg)))
                         ELSE Val(Return(TRUE, content.v,
                                         PyGet(data.v, "sources", None).v, None))

\* requests.exceptions.RequestException and its subclasses.  response.json()
\* raises requests.exceptions.JSONDecodeError, which derives from both
\* RequestException (through InvalidJSONError) and json.JSONDecodeError.
IsRequestException(cls) ==
    cls \in {"HTTPError", "Timeout", "ConnectionError", "JSONDecodeError"}

\* The except clauses, tried in the order they are written.
ExceptClauses(exc, net) ==
    IF exc.cls = "HTTPError"
    THEN Return(TRUE, None, None,
                Str(<<"HTTP error occurred: ">> \o exc.str \o <<". Response: ">> \o net.text))
    ELSE IF IsRequestException(exc.cls)
    THEN Return(TRUE, None, None, Str(<<"Request error: ">> \o exc.str))
    ELSE IF exc.cls = "JSONDecodeError"
    THEN Return(TRUE, None, None, Str(<<"JSON decode error. Response: ">> \o net.text))
    ELSE IF exc.cls \in {"IndexError", "KeyError"}
    THEN Return(TRUE, None, None, Str(<<"Unexpected API response structure: ">> \o exc.str))
    ELSE Propagate(exc)

\* get_assistant_response once the request is posted and `net` happens.
AfterPost(net, url) ==
    LET tried == TryBlock(net, url)
    IN IF tried.raised THEN ExceptClauses(tried, net) ELSE tried.v

get_assistant_response(tok, aid, history, net) ==
    IF MissingConfig(tok, aid)
    THEN Return(FALSE, None, None, Str(MissingMsg))
    ELSE AfterPost(net, Url(aid))

---------------------------------------------------------------------------
(* The Streamlit script: session state, sidebar, chat input.               *)

Tokens == {<<>>, <<"tok">>}
Assistants == {<<>>, <<"bot">>}
Prompts == {<<"q1">>, <<"q2">>}

ConfigWarning == <<"Please enter your API Token and Assistant Name in the sidebar first!">>
NoNet == [kind |-> "none", status |-> 0, text |-> <<>>]

\* "Update session state when inputs change": the two text_input values are
\* copied into the session state, and a change clears config_error.
SidebarSync(tokInput, aidInput) ==
    [api_token    |-> IF tokInput # api_token THEN tokInput ELSE api_token,
     assistant_id |-> IF aidInput # assistant_id THEN aidInput ELSE assistant_id,
     config_error |-> IF tokInput # api_token \/ aidInput # assistant_id
                      THEN <<>> ELSE config_error]

\* for i, source in enumerate(sources): source.get(...)
RenderSources(sources) ==
    CASE sources.t = "list" ->
            IF \E i \in 1..Len(sources.l) : sources.l[i].t # "dict"
            THEN Raise("AttributeError", <<"object has no attribute 'get'">>)
            ELSE Val(None)
      [] sources.t \in {"dict", "str"} ->
            Raise("AttributeError", <<"'str' object has no attribute 'get'">>)
      [] OTHER -> Raise("TypeError", <<"'", sources.t, "' object is not iterable">>)

UserEntry(prompt) == [role |-> "user", content |-> Str(prompt)]
ErrorEntry(error) ==
    [role |-> "assistant", content |-> Str(<<"Sorry, I encountered an error: ">> \o error.s)]
FallbackEntry ==
    [role |-> "assistant", content |-> Str(<<"Sorry, I couldn't generate a response.">>)]

\* Mutant: a failed call replaces the user's message by the error notice.
DropPromptOnError(history, r) ==
    IF r.raised
    THEN [messages |-> history, last |-> "crashed"]
    ELSE IF Truthy(r.error)
    THEN [messages |-> Append(SubSeq(history, 1, Len(history) - 1), ErrorEntry(r.error)),
          last |-> "error"]
    ELSE [messages |-> Append(history, [role |-> "assistant", content |-> r.answer]),
          last |-> "answered"]

\* The chat input handler from the return of get_assistant_response on:
\* the transcript it leaves, and how the script run ended.
HandleResult(history, r) ==
    IF r.raised
    THEN [messages |-> history, last |-> "crashed"]
    ELSE IF Truthy(r.error)
    THEN [messages |-> Append(history, ErrorEntry(r.error)), last |-> "error"]
    ELSE IF Truthy(r.answer)
    THEN IF Truthy(r.sources)
         THEN IF RenderSources(r.sources).raised
              THEN [messages |-> history, last |-> "crashed"]
              ELSE [messages |-> Append(history, [role |-> "assistant", content |-> r.answer,
                                                  sources |-> r.sources]),
                    last |-> "answered"]
         ELSE [messages |-> Append(history, [role |-> "assistant", content |-> r.answer]),
               last |-> "answered"]
    ELSE [messages |-> Append(history, FallbackEntry), last |-> "fallback"]

Init ==
    /\ messages = <<>>
    /\ api_token = <<>>
    /\ assistant_id = <<>>
    /\ config_error = <<>>
    /\ api_token_input_key = <<>>
    /\ assistant_id_input_key = <<>>
    /\ pc = "idle"
    /\ netCalls = 0
    /\ request = NoRequest
    /\ result = NoResult
    /\ outcome = NoNet
    /\ last = "start"

\* The user changes the "API Token" field: one script run with the new value.
EditToken(v) ==
    /\ pc = "idle"
    /\ v # api_token_input_key
    /\ api_token_input_key' = v
    /\ LET s == SidebarSync(v, assistant_id_input_key)
       IN /\ api_token' = s.api_token
          /\ assistant_id' = s.assistant_id
          /\ config_error' = s.config_error
    /\ last' = "edit"
    /\ UNCHANGED <<messages, assistant_id_input_key, pc, netCalls, request, result, outcome>>

\* The user changes the "Assistant Name" field.
EditAssistant(v) ==
    /\ pc = "idle"
    /\ v # assistant_id_input_key
    /\ assistant_id_input_key' = v
    /\ LET s == SidebarSync(api_token_input_key, v)
       IN /\ api_token' = s.api_token
          /\ assistant_id' = s.assistant_id
          /\ config_error' = s.config_error
    /\ last' = "edit"
    /\ UNCHANGED <<messages, api_token_input_key, pc, netCalls, request, result, outcome>>

\* What the two text_input widgets hold after the reset run.  Both widgets
\* were instantiated earlier in the same run, so Streamlit rejects the
\* assignments to st.session_state.api_token_input_key and
\* st.session_state.assistant_id_input_key (StreamlitAPIException) and the
\* run ends before st.rerun().  A build that identifies a keyed widget by
\* its key keeps what the user typed (kept); a build that identifies it by
\* its arguments re-creates it from value="" in the next run.
WidgetsAfterReset(kept) ==
    [api_token_input_key    |-> IF kept THEN api_token_input_key ELSE <<>>,
     assistant_id_input_key |-> IF kept THEN assistant_id_input_key ELSE <<>>]

\* "Refresh All & Clear Chat"
ResetButton ==
    /\ pc = "idle"
    /\ messages' = <<>>
    /\ api_token' = <<>>
    /\ assistant_id' = <<>>
    /\ config_error' = <<>>
    /\ \E kept \in BOOLEAN :
          LET w == WidgetsAfterReset(kept)
          IN /\ api_token_input_key' = w.api_token_input_key
             /\ assistant_id_input_key' = w.assistant_id_input_key
    /\ last' = "reset"
    /\ UNCHANGED <<pc, netCalls, request, result, outcome>>

\* The check the chat input handler makes before it touches the transcript.
ConfigNotEntered(tok, aid) == tok = <<>> \/ aid = <<>>

\* The user reruns the script (the "Rerun" command of the Streamlit menu):
\* a script run with no widget event.
Rerun ==
    /\ pc = "idle"
    /\ LET s == SidebarSync(api_token_input_key, assistant_id_input_key)
       IN /\ api_token' = s.api_token
          /\ assistant_id' = s.assistant_id
          /\ config_error' = s.config_error
    /\ last' = "rerun"
    /\ UNCHANGED <<messages, api_token_input_key, assistant_id_input_key, pc, netCalls,
                   request, result, outcome>>

\* The user submits a prompt in st.chat_input.  The run that ended in the
\* reset button's exception never reached st.chat_input, so the page that
\* run left has no chat input to submit from.
ChatInput(prompt) ==
    /\ pc = "idle"
    /\ last # "reset"
    /\ LET s == SidebarSync(api_token_input_key, assistant_id_input_key)
           history == Append(messages, UserEntry(prompt))
       IN /\ api_token' = s.api_token
          /\ assistant_id' = s.assistant_id
          /\ IF ConfigNotEntered(s.api_token, s.assistant_id)
             THEN /\ config_error' = ConfigWarning
                  /\ last' = "blocked"
                  /\ UNCHANGED <<messages, pc, netCalls, request, result, outcome>>
             ELSE /\ Len(messages) + 2 <= MaxMsgs
                  /\ netCalls < MaxCalls
                  /\ config_error' = <<>>
                  /\ IF MissingConfig(s.api_token, s.assistant_id)
                     THEN LET r == Return(FALSE, None, None, Str(MissingMsg))
                              h == HandleResult(history, r)
                          IN /\ result' = r
                             /\ messages' = h.messages
                             /\ last' = h.last
                             /\ UNCHANGED <<pc, netCalls, request, outcome>>
                     ELSE /\ messages' = history
                          /\ request' = BuildRequest(s.api_token, s.assistant_id, history)
                          /\ netCalls' = netCalls + 1
                          /\ pc' = "waiting"
                          /\ last' = "posted"
                          /\ UNCHANGED <<result, outcome>>
    /\ UNCHANGED <<api_token_input_key, assistant_id_input_key>>

\* Mutant: a timeout or a connection failure is retried.
RespondWithRetry(n) ==
    /\ pc = "waiting"
    /\ IF n \in TransportFailures /\ netCalls < MaxCalls
       THEN /\ netCalls' = netCalls + 1
            /\ outcome' = n
            /\ UNCHANGED <<messages, result, last, pc>>
       ELSE LET r == AfterPost(n, Url(assistant_id))
                h == HandleResult(messages, r)
            IN /\ result' = r
               /\ messages' = h.messages
               /\ last' = h.last
               /\ outcome' = n
               /\ pc' = "idle"
               /\ UNCHANGED netCalls
    /\ UNCHANGED <<api_token, assistant_id, config_error, api_token_input_key,
                   assistant_id_input_key, request>>

\* requests.post ends (a response, a timeout, a connection failure),
\* get_assistant_response returns or raises, and the chat input handler
\* runs to its end.
Respond(n) ==
    /\ pc = "waiting"
    /\ LET r == AfterPost(n, Url(assistant_id))
           h == HandleResult(messages, r)
       IN /\ result' = r
          /\ messages' = h.messages
          /\ last' = h.last
    /\ outcome' = n
    /\ pc' = "idle"
    /\ UNCHANGED <<api_token, assistant_id, config_error, api_token_input_key,
                   assistant_id_input_key, netCalls, request>>

Next ==
    \/ \E v \in Tokens : EditToken(v)
    \/ \E v \in Assistants : EditAssistant(v)
    \/ ResetButton
    \/ Rerun
    \/ \E p \in Prompts : ChatInput(p)
    \/ \E n \in NetOutcomes : Respond(n)

Spec == Init /\ [][Next]_vars

---------------------------------------------------------------------------
(* get_assistant_response on its own: every token, assistant name and      *)
(* history of a bounded set, against every network outcome.                *)

MaxHistory == 2

SampleEntries ==
    {UserEntry(<<"q1">>),
     [role |-> "assistant", content |-> Str(<<"Hello">>)],
     [role |-> "assistant", content |-> Str(<<"Hi">>), sources |-> List(<<Doc1>>)]}

Histories == UNION {[1..k -> SampleEntries] : k \in 0..MaxHistory}

SendInit ==
    /\ messages \in Histories
    /\ api_token \in Tokens
    /\ assistant_id \in Assistants
    /\ config_error = <<>>
    /\ api_token_input_key = api_token
    /\ assistant_id_input_key = assistant_id
    /\ pc = "idle"
    /\ netCalls = 0
    /\ request = NoRequest
    /\ result = NoResult
    /\ outcome = NoNet
    /\ last = "start"

SendCall(n) ==
    /\ last = "start"
    /\ LET r == get_assistant_response(api_token, assistant_id, messages, n)
       IN /\ result' = r
          /\ netCalls' = IF r.called THEN netCalls + 1 ELSE netCalls
          /\ request' = IF r.called THEN BuildRequest(api_token, assistant_id, messages)
                        ELSE request
          /\ outcome' = IF r.called THEN n ELSE outcome
    /\ last' = "returned"
    /\ UNCHANGED <<messages, api_token, assistant_id, config_error, api_token_input_key,
                   assistant_id_input_key, pc>>

SendNext == \E n \in NetOutcomes : SendCall(n)

SendSpec == SendInit /\ [][SendNext]_vars

---------------------------------------------------------------------------
(* Properties.                                                             *)

IsSuffix(suffix, text) ==
    /\ Len(suffix) <= Len(text)
    /\ SubSeq(text, Len(text) - Len(suffix) + 1, Len(text)) = suffix

HasFragment(text, fragment) == \E i \in 1..Len(text) : text[i] = fragment

\* get_assistant_response returned (None, None, some error text)
ReturnedError(r) ==
    /\ ~r.raised
    /\ r.answer = None
    /\ r.sources = None
    /\ r.error.t = "str"
    /\ r.error.s # <<>>

\* the error text of an HTTP error: it names the status and ends with the body
IsHttpError(error, status, body) ==
    /\ Head(error.s) = "HTTP error occurred: "
    /\ HasFragment(error.s, ToString(status))
    /\ IsSuffix(<<". Response: ">> \o body, error.s)

\* the parsed body holds a non-empty answer text at choices[0].message.content
HasAnswerText(v) ==
    /\ v.t = "dict"
    /\ "choices" \in DOMAIN v.d
    /\ v.d["choices"].t = "list"
    /\ Len(v.d["choices"].l) > 0
    /\ LET first == v.d["choices"].l[1]
       IN /\ first.t = "dict"
          /\ "message" \in DOMAIN first.d
          /\ first.d["message"].t = "dict"
          /\ "content" \in DOMAIN first.d["message"].d
          /\ first.d["message"].d["content"].t = "str"
          /\ first.d["message"].d["content"].s # <<>>

Cleared == messages = <<>> /\ api_token = <<>> /\ assistant_id = <<>>

\* C1: when get_assistant_response is called with an empty token or an
\* empty assistant name, whatever the history, it posts nothing and returns
\* (None, None, "API Token or Assistant ID is missing.").
C1_MissingConfigNoCall ==
    (last = "returned" /\ (api_token = <<>> \/ assistant_id = <<>>))
        => /\ result = Return(FALSE, None, None, Str(MissingMsg))
           /\ netCalls = 0
           /\ request = NoRequest

C1_Witness ==
    /\ last = "returned"
    /\ api_token = <<>>
    /\ assistant_id # <<>>
    /\ Len(messages) = MaxHistory
    /\ result.error = Str(MissingMsg)

\* C2: the messages of the posted request are the transcript entry by
\* entry, in order, each with the role and content of its entry and nothing
\* else; no request ever carries a sources key.
C2_PayloadRoleContent ==
    /\ pc = "waiting" =>
         /\ Len(request.payload.messages) = Len(messages)
         /\ \A i \in 1..Len(messages) :
               /\ DOMAIN request.payload.messages[i] = {"role", "content"}
               /\ request.payload.messages[i].role = messages[i].role
               /\ request.payload.messages[i].content = messages[i].content
    /\ \A i \in 1..Len(request.payload.messages) :
          "sources" \notin DOMAIN request.payload.messages[i]

C2_Witness ==
    /\ pc = "waiting"
    /\ \E i \in 1..Len(messages) : "sources" \in DOMAIN messages[i]

\* C3: the reset leaves transcript, token and assistant name empty, and
\* they stay empty, with no request posted, as long as the user does not edit
\* the configuration fields.
C3_ResetStaysCleared ==
    [][/\ last' = "reset" => Cleared'
       /\ (last = "reset" /\ last' # "edit") => (Cleared' /\ netCalls' = netCalls)]_vars

\* C4 as stated: every response with a status outside 200..299 makes
\* get_assistant_response return no answer, no sources and an HTTP error
\* that carries the status and the raw body.
C4_Non2xxIsHttpError ==
    (outcome.kind = "response" /\ outcome.status \notin 200..299)
        => /\ ReturnedError(result)
           /\ IsHttpError(result.error, outcome.status, outcome.text)

\* C4 as amended: every response with a status in 400..599 makes
\* get_assistant_response return no answer, no sources and an HTTP error
\* that carries the status and the raw body.
C4_ErrorStatusIsHttpError ==
    (outcome.kind = "response" /\ outcome.status \in 400..599)
        => /\ ReturnedError(result)
           /\ IsHttpError(result.error, outcome.status, outcome.text)

C4_Witness ==
    /\ outcome.kind = "response"
    /\ outcome.status = 500
    /\ outcome.text = <<"boom">>
    /\ last = "error"

\* C5: a 2xx response whose body parses but holds no answer text, or an
\* empty one, makes get_assistant_response return the empty-response error
\* with no answer and no sources; no success comes with an empty answer.
C5_EmptyResponse ==
    /\ (/\ outcome.kind = "response"
        /\ outcome.status \in 200..299
        /\ ~JsonLoads(outcome.text).raised
        /\ ~HasAnswerText(JsonLoads(outcome.text).v))
          => (ReturnedError(result) /\ result.error = Str(EmptyMsg))
    /\ (outcome.kind = "response" /\ ~result.raised /\ result.error = None)
          => Truthy(result.answer)

\* C6: a 2xx response whose body is not JSON makes get_assistant_response
\* return no answer and the JSON decode error, which carries the raw body
\* and is not the error reported for transport failures.
C6_ProtocolError ==
    (/\ outcome.kind = "response"
     /\ outcome.status \in 200..299
     /\ JsonLoads(outcome.text).raised)
        => /\ ReturnedError(result)
           /\ Head(result.error.s) # "Request error: "
           /\ IsSuffix(<<"JSON decode error. Response: ">> \o outcome.text, result.error.s)

\* C7: no step but the reset changes or removes an entry of the transcript
\* (a step appends at most one entry at the end), and every request is
\* posted for the transcript so far plus the prompt just submitted, entry by
\* entry in order.
C7_AppendOrder ==
    [][/\ last' # "reset" =>
            /\ Len(messages') \in {Len(messages), Len(messages) + 1}
            /\ SubSeq(messages', 1, Len(messages)) = messages
       /\ netCalls' # netCalls =>
            /\ \E p \in Prompts :
                  messages' = messages \o <<[role |-> "user", content |-> Str(p)]>>
            /\ Len(request'.payload.messages) = Len(messages')
            /\ \A i \in 1..Len(messages') :
                  /\ request'.payload.messages[i].role = messages'[i].role
                  /\ request'.payload.messages[i].content = messages'[i].content]_vars

C7_Witness ==
    /\ pc = "idle"
    /\ Len(messages) = 4
    /\ last = "error"
    /\ "sources" \in DOMAIN messages[2]

\* C8: when the exchange fails, the handler appends exactly one assistant
\* entry, the error notice with role and content only, after the user's
\* message and changes nothing else in the transcript.
C8_FailureAppendsNotice ==
    [][(pc = "waiting" /\ pc' = "idle" /\ (result'.raised \/ Truthy(result'.error)))
          => /\ Len(messages') = Len(messages) + 1
             /\ SubSeq(messages', 1, Len(messages)) = messages
             /\ DOMAIN messages'[Len(messages')] = {"role", "content"}
             /\ messages'[Len(messages')].role = "assistant"
             /\ Head(messages'[Len(messages')].content.s) = "Sorry, I encountered an error: "]_vars

\* C9: a submission made with token and assistant name entered posts one
\* request; while that request is out no other is posted, and its outcome,
\* a timeout or a connection failure included, ends the turn: a transport
\* failure is returned as an error.
C9_OneCallPerTurn ==
    [][/\ (pc = "idle" /\ last' \in {"posted", "blocked"}
                       /\ api_token' # <<>> /\ assistant_id' # <<>>)
            => (netCalls' = netCalls + 1 /\ pc' = "waiting")
       /\ netCalls' # netCalls => (pc = "idle" /\ netCalls' = netCalls + 1)
       /\ pc = "waiting" =>
            /\ netCalls' = netCalls
            /\ pc' = "idle"
            /\ outcome'.kind \in {"Timeout", "ConnectionError"}
                 => (ReturnedError(result') /\ last' = "error")]_vars

C9_Witness ==
    /\ netCalls = 2
    /\ outcome.kind = "Timeout"
    /\ last = "error"
    /\ pc = "idle"

\* C10: whenever no exchange is in progress the transcript is empty or
\* alternates user, assistant, user, assistant, ..., ending with an
\* assistant entry.
C10_Alternates ==
    pc = "idle" =>
        /\ Len(messages) % 2 = 0
        /\ \A i \in 1..Len(messages) :
              messages[i].role = IF i % 2 = 1 THEN "user" ELSE "assistant"

====
